---------------------------- MODULE Spec2Model ----------------------------
(***************************************************************************)
(* Model of generate_cards_pdf.py: the werewolf card PDF generator.        *)
(*                                                                         *)
(* One run of main() is modelled as a state machine: scan the card folder, *)
(* categorize the files and derive the quantities, expand the inventory    *)
(* into the flat card list, compute the page layout, draw the instructions *)
(* page, draw the card pages one card at a time, save the document.        *)
(*                                                                         *)
(* Lengths are exact rationals in units of 1/127 point: reportlab defines  *)
(* mm = 72/25.4 pt = 360/127 pt, so one millimetre is exactly 360 units    *)
(* and every division of _calculate_layout is exact.                       *)
(***************************************************************************)
EXTENDS Integers, Sequences, FiniteSets, TLC

VARIABLES
    dir_exists,     \* environment: CARDS_DIR.exists()
    folder,         \* environment: the *.png files of CARDS_DIR, in glob order
    pc,             \* position of main()
    scan_attempts,  \* number of calls of scan_card_files made so far
    card_files,     \* main: card_files
    inventory,      \* main: inventory (CardInventory) or None
    cards_to_print, \* generate: cards_to_print
    layout,         \* generate: layout (LayoutConfig) or None
    c,              \* generate: the canvas, or None before it is created
    page_num,       \* _add_card_pages: loop variable page_num
    i,              \* _add_card_pages: loop variable i
    failures,       \* number of drawImage calls that raised so far
    output,         \* the written document (a sequence of pages) or None
    exit_code       \* value returned by main(), or None while running

vars == <<dir_exists, folder, pc, scan_attempts, card_files, inventory,
          cards_to_print, layout, c, page_num, i, failures, output, exit_code>>

\* a variable that holds nothing yet is None, one that holds x is Some(x)
None == <<>>
Some(x) == <<x>>

----------------------------------------------------------------------------
(* Bounds of the model *)

\* largest number of files in the scanned folder (specification Spec)
MaxFiles == 3
\* largest length of the list given to categorize_cards (SpecInventory)
MaxInvFiles == 4
\* largest number of drawImage failures in one run
MaxFailures == 1

----------------------------------------------------------------------------
(* Module constants *)

CARDS_DIR == "Cartes"

mm == 360
\* one point, the unit of the canvas coordinates
point == 127
A4 == <<210 * mm, 297 * mm>>
page_width == A4[1]
page_height == A4[2]

MARGIN == 15
CARD_MAX_SIZE == 80
CARD_SPACING_V == 8
CARD_SPACING_H_MIN == 10

CardType == {"VILLAGER", "WEREWOLF", "FEATHERS", "CAPTAIN", "BACK"}

CardTypeValue(t) ==
    CASE t = "VILLAGER" -> "Simple Villageois.png"
      [] t = "WEREWOLF" -> "Loup Garou.png"
      [] t = "FEATHERS" -> "Plumes du corbeau.png"
      [] t = "CAPTAIN"  -> "Capitaine.png"
      [] t = "BACK"     -> "Dos-Cartes.png"

\* the countable card types, in the declaration order of CARD_QUANTITIES
CountableTypes == <<"VILLAGER", "WEREWOLF", "FEATHERS", "CAPTAIN">>

CARD_QUANTITIES(t) ==
    CASE t = "VILLAGER" -> 6
      [] t = "WEREWOLF" -> 4
      [] t = "FEATHERS" -> 2
      [] t = "CAPTAIN"  -> 2

QUANTITY_KEYS(t) ==
    CASE t = "VILLAGER" -> "villageois_count"
      [] t = "WEREWOLF" -> "loup_garou_count"
      [] t = "FEATHERS" -> "plumes_corbeau_count"
      [] t = "CAPTAIN"  -> "capitaine_count"

PRESENCE_FLAGS(t) ==
    CASE t = "VILLAGER" -> "has_villageois"
      [] t = "WEREWOLF" -> "has_loup_garou"
      [] t = "FEATHERS" -> "has_plumes_corbeau"
      [] t = "CAPTAIN"  -> "has_capitaine"
      [] t = "BACK"     -> "has_dos"

DOUBLE_SIDED_CARDS == {"VILLAGER", "CAPTAIN", "FEATHERS"}

----------------------------------------------------------------------------
(* Paths *)

Path(parent, name) == [parent |-> parent, name |-> name]

\* file names that match no card type ("Loup garou.png" differs from the
\* werewolf file name by the case of one letter)
OtherNames == {"Voyante.png", "Sorciere.png", "Loup garou.png"}

KnownNames == {CardTypeValue(t) : t \in CardType}

\* the files the scanned card folder may hold
FolderPaths ==
    {Path(CARDS_DIR, n) : n \in KnownNames \cup {"Voyante.png", "Sorciere.png"}}

Range(s) == {s[k] : k \in DOMAIN s}

\* the sequences of exactly n distinct elements of S
RECURSIVE InjSeqsOfLen(_, _)
InjSeqsOfLen(S, n) ==
    IF n = 0 THEN {<<>>}
    ELSE UNION {{Append(s, p) : p \in S \ Range(s)} : s \in InjSeqsOfLen(S, n - 1)}

\* the sequences of at most n distinct elements of S
InjSeqs(S, n) == UNION {InjSeqsOfLen(S, k) : k \in 0..n}

----------------------------------------------------------------------------
(* Pure helpers *)

Min(a, b) == IF a <= b THEN a ELSE b
Max(a, b) == IF a >= b THEN a ELSE b

RECURSIVE Repeat(_, _)
Repeat(x, n) == IF n <= 0 THEN <<>> ELSE <<x>> \o Repeat(x, n - 1)

RECURSIVE Flatten(_)
Flatten(ss) == IF ss = <<>> THEN <<>> ELSE Head(ss) \o Flatten(Tail(ss))

RECURSIVE SumSeq(_)
SumSeq(s) == IF s = <<>> THEN 0 ELSE Head(s) + SumSeq(Tail(s))

----------------------------------------------------------------------------
(* Inventory builder *)

\* type_mapping of categorize_cards: the card type of a file name
type_mapping(filename) == CHOOSE t \in CardType : CardTypeValue(t) = filename

\* the loop of categorize_cards over card_files[k..], with the accumulators
\* categorized (a defaultdict: only the keys appended to exist) and others
RECURSIVE CategorizeLoop(_, _, _, _)
CategorizeLoop(files, k, categorized, others) ==
    IF k > Len(files) THEN [categorized |-> categorized, others |-> others]
    ELSE LET card_path == files[k]
             filename == card_path.name
         IN  IF filename \in KnownNames
             THEN LET t == type_mapping(filename)
                      old == IF t \in DOMAIN categorized
                             THEN categorized[t] ELSE <<>>
                      new == [u \in DOMAIN categorized \cup {t} |->
                                 IF u = t THEN Append(old, card_path)
                                 ELSE categorized[u]]
                  IN  CategorizeLoop(files, k + 1, new, others)
             ELSE CategorizeLoop(files, k + 1, categorized,
                                 Append(others, card_path))

\* mutant of BaseQuantity: the presence test is missing
BaseQuantityAlways(card_type, categorized) == CARD_QUANTITIES(card_type)

\* mutant of BaseQuantity: the base quantity counted once per matching file
BaseQuantityPerFile(card_type, categorized) ==
    IF card_type \in DOMAIN categorized
    THEN CARD_QUANTITIES(card_type) * Len(categorized[card_type]) ELSE 0

\* base quantity of a countable card type
BaseQuantity(card_type, categorized) ==
    IF card_type \in DOMAIN categorized THEN CARD_QUANTITIES(card_type) ELSE 0

\* computed by _calculate_quantities but never used
double_sided_reduction(categorized) ==
    2 * Cardinality({t \in DOUBLE_SIDED_CARDS : t \in DOMAIN categorized})

\* mutant of DosCount: the reduction taken from the double-sided types present
DosCountDerived(total_face, categorized) ==
    IF "BACK" \in DOMAIN categorized
    THEN Max(0, total_face - double_sided_reduction(categorized)) ELSE 0

\* quantities['dos_count']
DosCount(total_face, categorized) ==
    IF "BACK" \in DOMAIN categorized THEN Max(0, total_face - 6) ELSE 0

_calculate_quantities(categorized, others) ==
    LET keys == {QUANTITY_KEYS(t) : t \in Range(CountableTypes)}
        typeOf(key) == CHOOSE t \in Range(CountableTypes) : QUANTITY_KEYS(t) = key
        base == [key \in keys |-> BaseQuantity(typeOf(key), categorized)]
        total_face == Len(others)
                      + SumSeq([j \in DOMAIN CountableTypes |->
                                   base[QUANTITY_KEYS(CountableTypes[j])]])
        dos_count == DosCount(total_face, categorized)
        flagKeys == {PRESENCE_FLAGS(t) : t \in CardType}
        flagOf(key) == CHOOSE t \in CardType : PRESENCE_FLAGS(t) = key
        flags == [key \in flagKeys |-> flagOf(key) \in DOMAIN categorized]
    IN  base
        @@ ("autres_cartes" :> Len(others))
        @@ ("total_cartes_face" :> total_face)
        @@ ("dos_count" :> dos_count)
        @@ ("total_cartes" :> total_face + dos_count)
        @@ flags

categorize_cards(files) ==
    LET r == CategorizeLoop(files, 1, <<>>, <<>>)
    IN  [categorized |-> r.categorized,
         others      |-> r.others,
         quantities  |-> _calculate_quantities(r.categorized, r.others)]

\* properties of CardInventory
total_face_cards(inv) == inv.quantities["total_cartes_face"]
back_count(inv) == inv.quantities["dos_count"]
total_cards(inv) == inv.quantities["total_cartes"]

----------------------------------------------------------------------------
(* Card list expansion *)

\* the cards one countable type contributes to the list
QuantityCards(inv, card_type) ==
    IF card_type \in DOMAIN inv.categorized
       /\ inv.quantities[QUANTITY_KEYS(card_type)] > 0
    THEN Repeat(inv.categorized[card_type][1],
                inv.quantities[QUANTITY_KEYS(card_type)])
    ELSE <<>>

\* the card backs appended last
BackCards(inv) ==
    IF "BACK" \in DOMAIN inv.categorized /\ back_count(inv) > 0
    THEN Repeat(inv.categorized["BACK"][1], back_count(inv))
    ELSE <<>>

\* mutant of _prepare_card_list: the card backs put before the other cards
_prepare_card_list_backs_first(inv) ==
    Flatten([j \in DOMAIN CountableTypes |-> QuantityCards(inv, CountableTypes[j])])
    \o BackCards(inv)
    \o inv.others

_prepare_card_list(inv) ==
    Flatten([j \in DOMAIN CountableTypes |-> QuantityCards(inv, CountableTypes[j])])
    \o inv.others
    \o BackCards(inv)

----------------------------------------------------------------------------
(* Layout engine *)

cards_per_page(l) == l.cards_per_row * l.cards_per_col

\* mutant of _calculate_layout: the leftover width is shared by the gaps
\* between the cards only
_calculate_layout_inner_gaps ==
    LET available_width == page_width - 2 * MARGIN * mm
        available_height == page_height - 2 * MARGIN * mm
        cards_per_row == 2
        card_size == Min(CARD_MAX_SIZE * mm,
                         (available_width - CARD_SPACING_H_MIN * mm) \div 2)
        total_card_width == cards_per_row * card_size
        horizontal_spacing ==
            (available_width - total_card_width) \div (cards_per_row - 1)
        cards_per_col == available_height \div (card_size + CARD_SPACING_V * mm)
    IN  [card_size |-> card_size,
         cards_per_row |-> cards_per_row,
         cards_per_col |-> cards_per_col,
         horizontal_spacing |-> horizontal_spacing]

_calculate_layout ==
    LET available_width == page_width - 2 * MARGIN * mm
        available_height == page_height - 2 * MARGIN * mm
        cards_per_row == 2
        card_size == Min(CARD_MAX_SIZE * mm,
                         (available_width - CARD_SPACING_H_MIN * mm) \div 2)
        total_card_width == cards_per_row * card_size
        horizontal_spacing ==
            (available_width - total_card_width) \div (cards_per_row + 1)
        cards_per_col == available_height \div (card_size + CARD_SPACING_V * mm)
    IN  [card_size |-> card_size,
         cards_per_row |-> cards_per_row,
         cards_per_col |-> cards_per_col,
         horizontal_spacing |-> horizontal_spacing]

----------------------------------------------------------------------------
(* Canvas: the pages already emitted and the operations of the current page *)

NewCanvas == [pages |-> <<>>, code |-> <<>>]

\* Canvas.showPage: emit the current page and start an empty one
showPage(cv) == [pages |-> Append(cv.pages, cv.code), code |-> <<>>]

\* Canvas.save: a current page that holds operations is emitted first
savedPages(cv) == IF cv.code # <<>> THEN showPage(cv).pages ELSE cv.pages

drawOps(cv, ops) == [cv EXCEPT !.code = @ \o ops]

----------------------------------------------------------------------------
(* Instructions page *)

SummaryLine(inv, card_type) ==
    IF card_type \in DOMAIN inv.categorized
       /\ inv.quantities[QUANTITY_KEYS(card_type)] > 0
    THEN <<[qty |-> inv.quantities[QUANTITY_KEYS(card_type)], text |-> card_type]>>
    ELSE <<>>

_generate_content_summary(inv) ==
    Flatten([j \in DOMAIN CountableTypes |-> SummaryLine(inv, CountableTypes[j])])
    \o (IF inv.quantities["autres_cartes"] > 0
        THEN <<[qty |-> inv.quantities["autres_cartes"], text |-> "Cartes speciales"]>>
        ELSE <<>>)
    \o (IF "BACK" \in DOMAIN inv.categorized
        THEN <<[qty |-> back_count(inv), text |-> "Dos"]>>
        ELSE <<>>)
    \o <<[qty |-> 0, text |-> ""],
         [qty |-> total_face_cards(inv) - 3, text |-> "Total final"]>>

\* the static guidance text and the dynamic summary, as one operation
_add_instructions_page(cv, inv) ==
    drawOps(cv, <<[op |-> "instructions",
                   summary |-> SelectSeq(_generate_content_summary(inv),
                                         LAMBDA item : item.text # "")]>>)

----------------------------------------------------------------------------
(* Card pages *)

\* mutant of total_pages: the division rounds down
total_pages_floor(cards, l) == Len(cards) \div cards_per_page(l)

total_pages(cards, l) ==
    (Len(cards) + cards_per_page(l) - 1) \div cards_per_page(l)

start_idx(p, l) == p * cards_per_page(l)
end_idx(p, cards, l) == Min(start_idx(p, l) + cards_per_page(l), Len(cards))

\* row and column of a position on the page
CardRow(position, l) == position \div l.cards_per_row
CardCol(position, l) == position % l.cards_per_row

\* lower left corner of the square of a position
CardX(position, l) ==
    MARGIN * mm + l.horizontal_spacing
    + CardCol(position, l) * (l.card_size + l.horizontal_spacing)
\* mutant of CardY: the card's own height is not subtracted
CardYFromTop(position, l) ==
    page_height - MARGIN * mm
    - CardRow(position, l) * (l.card_size + CARD_SPACING_V * mm)

CardY(position, l) ==
    page_height - MARGIN * mm - l.card_size
    - CardRow(position, l) * (l.card_size + CARD_SPACING_V * mm)

\* c.drawImage succeeded
ImageOps(card_path, position, l) ==
    <<[op |-> "drawImage", path |-> card_path,
       x |-> CardX(position, l), y |-> CardY(position, l),
       width |-> l.card_size, height |-> l.card_size]>>

\* mutant of FallbackOps: the failure is only logged
FallbackOpsLogOnly(card_path, position, l) == <<>>

\* c.drawImage raised: the placeholder rectangle and its label
FallbackOps(card_path, position, l) ==
    <<[op |-> "rect",
       x |-> CardX(position, l), y |-> CardY(position, l),
       width |-> l.card_size, height |-> l.card_size],
      [op |-> "drawString",
       x |-> CardX(position, l) + 5 * point,
       y |-> CardY(position, l) + l.card_size \div 2,
       text |-> <<"Error: ", card_path.name>>]>>

----------------------------------------------------------------------------
(* The run of main() *)

\* what the variables hold once they hold something
Inv == inventory[1]
Cards == cards_to_print[1]
Lay == layout[1]
Cv == c[1]
Doc == output[1]

Init ==
    /\ dir_exists \in BOOLEAN
    /\ folder \in (IF dir_exists THEN InjSeqs(FolderPaths, MaxFiles) ELSE {<<>>})
    /\ pc = "scan"
    /\ scan_attempts = 0
    /\ card_files = <<>>
    /\ inventory = None
    /\ cards_to_print = None
    /\ layout = None
    /\ c = None
    /\ page_num = 0
    /\ i = 0
    /\ failures = 0
    /\ output = None
    /\ exit_code = None

\* mutant of ScanNotFound: a missing folder is scanned as an empty one
ScanNotFoundAsEmpty ==
    /\ pc = "scan"
    /\ ~dir_exists
    /\ scan_attempts' = scan_attempts + 1
    /\ card_files' = <<>>
    /\ pc' = "categorize"
    /\ UNCHANGED <<dir_exists, folder, inventory, cards_to_print, layout, c,
                   page_num, i, failures, output, exit_code>>

\* scan_card_files raises FileNotFoundError; main reports it and returns 1
ScanNotFound ==
    /\ pc = "scan"
    /\ ~dir_exists
    /\ scan_attempts' = scan_attempts + 1
    /\ pc' = "done"
    /\ exit_code' = Some(1)
    /\ UNCHANGED <<dir_exists, folder, card_files, inventory, cards_to_print,
                   layout, c, page_num, i, failures, output>>

\* scan_card_files returns the files of the folder
ScanFound ==
    /\ pc = "scan"
    /\ dir_exists
    /\ scan_attempts' = scan_attempts + 1
    /\ card_files' = folder
    /\ pc' = "categorize"
    /\ UNCHANGED <<dir_exists, folder, inventory, cards_to_print, layout, c,
                   page_num, i, failures, output, exit_code>>

Categorize ==
    /\ pc = "categorize"
    /\ inventory' = Some(categorize_cards(card_files))
    /\ pc' = "generate"
    /\ UNCHANGED <<dir_exists, folder, scan_attempts, card_files,
                   cards_to_print, layout, c, page_num, i, failures, output,
                   exit_code>>

\* generate, up to the creation of the canvas
GenerateBegin ==
    /\ pc = "generate"
    /\ cards_to_print' = Some(_prepare_card_list(Inv))
    /\ layout' = Some(_calculate_layout)
    /\ c' = Some(NewCanvas)
    /\ pc' = "instructions"
    /\ UNCHANGED <<dir_exists, folder, scan_attempts, card_files, inventory,
                   page_num, i, failures, output, exit_code>>

\* mutant of AddInstructionsPage: the showPage after the instructions is missing
AddInstructionsPageNoShowPage ==
    /\ pc = "instructions"
    /\ c' = Some(_add_instructions_page(Cv, Inv))
    /\ page_num' = 0
    /\ pc' = "cards"
    /\ UNCHANGED <<dir_exists, folder, scan_attempts, card_files, inventory,
                   cards_to_print, layout, i, failures, output, exit_code>>

\* generate: the instructions page and the showPage that ends it
AddInstructionsPage ==
    /\ pc = "instructions"
    /\ c' = Some(showPage(_add_instructions_page(Cv, Inv)))
    /\ page_num' = 0
    /\ pc' = "cards"
    /\ UNCHANGED <<dir_exists, folder, scan_attempts, card_files, inventory,
                   cards_to_print, layout, i, failures, output, exit_code>>

\* _add_card_pages: the head of one iteration of the page loop; a page with
\* no card in its range is passed over at once
StartCardPage ==
    /\ pc = "cards"
    /\ page_num < total_pages(Cards, Lay)
    /\ c' = Some(IF page_num > 0 THEN showPage(Cv) ELSE Cv)
    /\ i' = start_idx(page_num, Lay)
    /\ IF start_idx(page_num, Lay) < end_idx(page_num, Cards, Lay)
       THEN /\ pc' = "draw"
            /\ page_num' = page_num
       ELSE /\ pc' = "cards"
            /\ page_num' = page_num + 1
    /\ UNCHANGED <<dir_exists, folder, scan_attempts, card_files, inventory,
                   cards_to_print, layout, failures, output, exit_code>>

\* the inner loop variable advances; after the last card of the page the
\* page loop goes on
NextCard ==
    /\ i' = i + 1
    /\ IF i + 1 < end_idx(page_num, Cards, Lay)
       THEN /\ pc' = "draw"
            /\ page_num' = page_num
       ELSE /\ pc' = "cards"
            /\ page_num' = page_num + 1

\* _draw_card, drawImage succeeds
DrawCardImage ==
    /\ pc = "draw"
    /\ i < end_idx(page_num, Cards, Lay)
    /\ c' = Some(drawOps(Cv, ImageOps(Cards[i + 1],
                                     i - start_idx(page_num, Lay), Lay)))
    /\ NextCard
    /\ UNCHANGED <<dir_exists, folder, scan_attempts, card_files, inventory,
                   cards_to_print, layout, failures, output, exit_code>>

\* _draw_card, drawImage raises and the placeholder is drawn instead
DrawCardFallback ==
    /\ pc = "draw"
    /\ i < end_idx(page_num, Cards, Lay)
    /\ failures < MaxFailures
    /\ failures' = failures + 1
    /\ c' = Some(drawOps(Cv, FallbackOps(Cards[i + 1],
                                        i - start_idx(page_num, Lay), Lay)))
    /\ NextCard
    /\ UNCHANGED <<dir_exists, folder, scan_attempts, card_files, inventory,
                   cards_to_print, layout, output, exit_code>>

\* generate: c.save(); main returns 0
Save ==
    /\ pc = "cards"
    /\ page_num = total_pages(Cards, Lay)
    /\ output' = Some(savedPages(Cv))
    /\ pc' = "done"
    /\ exit_code' = Some(0)
    /\ UNCHANGED <<dir_exists, folder, scan_attempts, card_files, inventory,
                   cards_to_print, layout, c, page_num, i, failures>>

Next ==
    \/ ScanNotFound
    \/ ScanFound
    \/ Categorize
    \/ GenerateBegin
    \/ AddInstructionsPage
    \/ StartCardPage
    \/ DrawCardImage
    \/ DrawCardFallback
    \/ Save

Spec == Init /\ [][Next]_vars

----------------------------------------------------------------------------
(* categorize_cards and _prepare_card_list applied to any list of paths *)

\* the order in which a list longer than MaxInvFiles goes on: the folder's
\* files, then a file with the werewolf file name in another folder
ListOrder ==
    <<Path(CARDS_DIR, "Capitaine.png"), Path(CARDS_DIR, "Dos-Cartes.png"),
      Path(CARDS_DIR, "Loup Garou.png"), Path(CARDS_DIR, "Loup garou.png"),
      Path(CARDS_DIR, "Plumes du corbeau.png"),
      Path(CARDS_DIR, "Simple Villageois.png"),
      Path(CARDS_DIR, "Sorciere.png"), Path(CARDS_DIR, "Voyante.png"),
      Path("Sauvegarde", "Loup Garou.png")>>

InventoryPaths == Range(ListOrder)

IndexOf(p) == CHOOSE k \in DOMAIN ListOrder : ListOrder[k] = p

InitInventory ==
    /\ dir_exists = TRUE
    /\ folder = <<>>
    /\ pc = "categorize"
    /\ scan_attempts = 0
    /\ card_files = <<>>
    /\ inventory = None
    /\ cards_to_print = None
    /\ layout = None
    /\ c = None
    /\ page_num = 0
    /\ i = 0
    /\ failures = 0
    /\ output = None
    /\ exit_code = None

\* the caller's list grows by one path it does not hold yet: the first
\* MaxInvFiles paths come in any order, the later ones in the order of ListOrder
ChooseFile ==
    /\ pc = "categorize"
    /\ \E p \in InventoryPaths \ Range(card_files) :
          /\ IF Len(card_files) < MaxInvFiles THEN TRUE
             ELSE IndexOf(p) > IndexOf(card_files[Len(card_files)])
          /\ card_files' = Append(card_files, p)
    /\ UNCHANGED <<dir_exists, folder, pc, scan_attempts, inventory,
                   cards_to_print, layout, c, page_num, i, failures, output,
                   exit_code>>

NextInventory == ChooseFile \/ Categorize \/ GenerateBegin

SpecInventory == InitInventory /\ [][NextInventory]_vars

----------------------------------------------------------------------------
(* Vocabulary of the properties *)

\* a file with this exact name is in the list given to categorize_cards
NameInList(name) == \E k \in DOMAIN card_files : card_files[k].name = name

\* the first file of the list with this name
FirstNamed(name) ==
    card_files[CHOOSE k \in DOMAIN card_files :
                  /\ card_files[k].name = name
                  /\ \A j \in 1..(k - 1) : card_files[j].name # name]

\* the files of the list that match no card type, in the order of the list
OtherFiles == SelectSeq(card_files, LAMBDA p : p.name \notin KnownNames)

IsCardOp(o) == o.op \in {"drawImage", "rect"}
IsInstructionsPage(page) == \E k \in DOMAIN page : page[k].op = "instructions"
CardOpsOf(page) == SelectSeq(page, IsCardOp)

\* the file name a card operation of a page stands for: the image drawn, or
\* the label that follows the placeholder rectangle
CardNameAt(page, k) ==
    IF page[k].op = "drawImage" THEN page[k].path.name
    ELSE IF k < Len(page) /\ page[k + 1].op = "drawString"
         THEN page[k + 1].text[2] ELSE ""

CardNamesOf(page) ==
    LET idx == SelectSeq([k \in DOMAIN page |-> k], LAMBDA k : IsCardOp(page[k]))
    IN  [j \in DOMAIN idx |-> CardNameAt(page, idx[j])]

NamesOf(cards) == [k \in DOMAIN cards |-> cards[k].name]

\* every page of the canvas so far, the one being drawn included
PagesSoFar == IF Cv.code = <<>> THEN Cv.pages ELSE Append(Cv.pages, Cv.code)

\* the cards drawn on the given pages, in drawing order: the page number, the
\* square and the file name of each, and whether it is a placeholder
RECURSIVE SlotsFrom(_, _, _)
SlotsFrom(page, k, pn) ==
    IF k > Len(page) THEN <<>>
    ELSE IF IsCardOp(page[k])
         THEN <<[page |-> pn,
                 x |-> page[k].x, y |-> page[k].y,
                 width |-> page[k].width, height |-> page[k].height,
                 name |-> CardNameAt(page, k),
                 placeholder |-> page[k].op = "rect"]>>
              \o SlotsFrom(page, k + 1, pn)
         ELSE SlotsFrom(page, k + 1, pn)

SlotsOnPage(page, pn) == SlotsFrom(page, 1, pn)

SlotsOf(pages) == Flatten([pn \in DOMAIN pages |-> SlotsOnPage(pages[pn], pn)])

printable_left == MARGIN * mm
printable_right == page_width - MARGIN * mm
printable_bottom == MARGIN * mm
printable_top == page_height - MARGIN * mm

----------------------------------------------------------------------------
(* C1: each countable category gets its base quantity (6, 4, 2, 2) exactly *)
(* when a file with its exact file name is in the list, and 0 otherwise;   *)
(* nothing else in the list changes these four quantities.                 *)
C1_BaseQuantities ==
    inventory # None =>
        LET q == Inv.quantities
            expect(name, qty) == IF NameInList(name) THEN qty ELSE 0
        IN  /\ q["villageois_count"] = expect("Simple Villageois.png", 6)
            /\ q["loup_garou_count"] = expect("Loup Garou.png", 4)
            /\ q["plumes_corbeau_count"] = expect("Plumes du corbeau.png", 2)
            /\ q["capitaine_count"] = expect("Capitaine.png", 2)

\* the inventory of the list holding only the werewolf image
C1_Witness ==
    /\ inventory # None
    /\ card_files = <<Path(CARDS_DIR, "Loup Garou.png")>>
    /\ Inv.quantities["villageois_count"] = 0
    /\ Inv.quantities["loup_garou_count"] = 4
    /\ total_face_cards(Inv) = 4
    /\ back_count(Inv) = 0

(* C2: total_face_cards is the sum of the four category quantities plus    *)
(* the number of other images, back_count is max(0, total_face_cards - 6)  *)
(* when the back image is in the list and 0 when it is not, and            *)
(* total_cards is total_face_cards + back_count.                           *)
C2_BackCount ==
    inventory # None =>
        LET q == Inv.quantities
            face == q["villageois_count"] + q["loup_garou_count"]
                    + q["plumes_corbeau_count"] + q["capitaine_count"]
                    + Len(OtherFiles)
            back == IF NameInList("Dos-Cartes.png")
                    THEN (IF face - 6 > 0 THEN face - 6 ELSE 0)
                    ELSE 0
        IN  /\ total_face_cards(Inv) = face
            /\ back_count(Inv) = back
            /\ total_cards(Inv) = face + back

\* the five known images plus three others: 17, 11, 28
C2_Witness ==
    /\ inventory # None
    /\ Range(card_files) = {Path(CARDS_DIR, n) : n \in KnownNames \cup OtherNames}
    /\ total_face_cards(Inv) = 17
    /\ back_count(Inv) = 11
    /\ total_cards(Inv) = 28

(* C3: the flat card list is the villager image villageois_count times,    *)
(* the werewolf image loup_garou_count times, the feathers image           *)
(* plumes_corbeau_count times, the captain image capitaine_count times,    *)
(* every other image once in the order of the list, then the back image    *)
(* back_count times, and nothing else.                                     *)
C3_CardListOrder ==
    cards_to_print # None =>
        LET q == Inv.quantities
            copies(name, n) == IF n > 0 THEN Repeat(FirstNamed(name), n) ELSE <<>>
        IN  Cards =
                copies("Simple Villageois.png", q["villageois_count"])
                \o copies("Loup Garou.png", q["loup_garou_count"])
                \o copies("Plumes du corbeau.png", q["plumes_corbeau_count"])
                \o copies("Capitaine.png", q["capitaine_count"])
                \o OtherFiles
                \o copies("Dos-Cartes.png", q["dos_count"])

\* a list with two others in the order Voyante, Sorciere, given before the
\* known images, and with back cards to print
C3_Witness ==
    /\ cards_to_print # None
    /\ Inv.others = <<Path(CARDS_DIR, "Voyante.png"),
                            Path(CARDS_DIR, "Sorciere.png")>>
    /\ card_files[1] = Path(CARDS_DIR, "Voyante.png")
    /\ Inv.quantities["capitaine_count"] = 2
    /\ back_count(Inv) > 0
    /\ Cards[Len(Cards)].name = "Dos-Cartes.png"

(* C4: the cards drawn on the card pages of the written document, page by  *)
(* page and slot by slot, are exactly the flat card list; every card page  *)
(* but the last holds rows*columns cards, the last between 1 and that.     *)
C4_Pagination ==
    output # None =>
        LET cardPages == SelectSeq(Doc, LAMBDA pg : ~IsInstructionsPage(pg))
            capacity == Lay.cards_per_col * Lay.cards_per_row
            last == Len(cardPages)
        IN  /\ Flatten([k \in DOMAIN cardPages |-> CardNamesOf(cardPages[k])])
                  = NamesOf(Cards)
            /\ \A k \in DOMAIN cardPages :
                  LET n == Len(CardOpsOf(cardPages[k]))
                  IN  IF k < last THEN n = capacity
                      ELSE 1 <= n /\ n <= capacity

\* a document of three card pages, the last one partly filled
C4_Witness ==
    /\ output # None
    /\ Len(Doc) = 4
    /\ Len(Cards) % cards_per_page(Lay) # 0
    /\ Len(CardOpsOf(Doc[2])) = 6

(* C5: the instructions page is emitted once, as page 1, before any card   *)
(* is drawn; no card is drawn on it; the written document is page 1 =      *)
(* instructions followed by the card pages.                                *)
C5_InstructionsFirst ==
    /\ c # None =>
          /\ \A k \in DOMAIN PagesSoFar :
                IsInstructionsPage(PagesSoFar[k]) =>
                    /\ k = 1
                    /\ Len(PagesSoFar[k]) = 1
          /\ (\E k \in DOMAIN PagesSoFar : CardOpsOf(PagesSoFar[k]) # <<>>) =>
                /\ Len(Cv.pages) >= 1
                /\ IsInstructionsPage(Cv.pages[1])
    /\ output # None =>
          /\ Len(Doc) >= 1
          /\ IsInstructionsPage(Doc[1])
          /\ CardOpsOf(Doc[1]) = <<>>
          /\ \A k \in 2..Len(Doc) :
                ~IsInstructionsPage(Doc[k]) /\ CardOpsOf(Doc[k]) # <<>>

\* a successful run whose document has card pages after the instructions
C5_Witness ==
    /\ pc = "done"
    /\ exit_code = Some(0)
    /\ output # None
    /\ Len(Doc) >= 3
    /\ IsInstructionsPage(Doc[1])

(* C6: for an existing folder without image files every quantity is 0, the *)
(* run goes on to succeed, and the document is the instructions page alone. *)
C6_EmptyFolder ==
    (dir_exists /\ folder = <<>>) =>
        /\ inventory # None =>
              /\ \A key \in {"villageois_count", "loup_garou_count",
                             "plumes_corbeau_count", "capitaine_count",
                             "autres_cartes", "total_cartes_face", "dos_count",
                             "total_cartes"} : Inv.quantities[key] = 0
              /\ \A key \in {"has_villageois", "has_loup_garou",
                             "has_plumes_corbeau", "has_capitaine", "has_dos"} :
                    Inv.quantities[key] = FALSE
              /\ total_cards(Inv) = 0
        /\ cards_to_print # None => Cards = <<>>
        /\ pc # "done" => ENABLED Next
        /\ pc = "done" =>
              /\ exit_code = Some(0)
              /\ output # None
              /\ Len(Doc) = 1
              /\ IsInstructionsPage(Doc[1])
              /\ CardOpsOf(Doc[1]) = <<>>

\* the finished run over an empty folder
C6_Witness ==
    /\ dir_exists
    /\ folder = <<>>
    /\ pc = "done"
    /\ exit_code = Some(0)
    /\ total_cards(Inv) = 0
    /\ Len(Doc) = 1

(* C7: a drawImage failure does not abort the run: every card drawn so far, *)
(* failed or not, is the next card of the flat list and lies on the page    *)
(* and in the square its index in the list gives it; each failure leaves a  *)
(* placeholder labelled with the file name; the run goes on and returns 0   *)
(* with every card of the list drawn.                                       *)
C7_DrawFailureKeepsSlot ==
    c # None =>
        LET slots == SlotsOf(PagesSoFar)
            capacity == cards_per_page(Lay)
        IN  /\ Len(slots) <= Len(Cards)
            /\ pc = "draw" => Len(slots) = i
            /\ \A k \in DOMAIN slots :
                  /\ slots[k].name = Cards[k].name
                  /\ slots[k].page = 2 + (k - 1) \div capacity
                  /\ slots[k].x = CardX((k - 1) % capacity, Lay)
                  /\ slots[k].y = CardY((k - 1) % capacity, Lay)
                  /\ slots[k].width = Lay.card_size
                  /\ slots[k].height = Lay.card_size
            /\ Cardinality({k \in DOMAIN slots : slots[k].placeholder}) = failures
            /\ pc # "done" => ENABLED Next
            /\ pc = "done" =>
                  /\ exit_code = Some(0)
                  /\ output # None
                  /\ Len(SlotsOf(Doc)) = Len(Cards)

\* a finished run in which a card failed and a later card was drawn as image
C7_Witness ==
    /\ pc = "done"
    /\ exit_code = Some(0)
    /\ failures > 0
    /\ LET slots == SlotsOf(Doc)
       IN  \E k \in 1..(Len(slots) - 1) :
              /\ slots[k].placeholder
              /\ ~slots[k + 1].placeholder

(* C8: without the card folder the run ends with exit code 1 after one     *)
(* scan: no inventory, no canvas, no page, no document.                    *)
C8_SourceNotFound ==
    ~dir_exists =>
        /\ pc \in {"scan", "done"}
        /\ inventory = None
        /\ cards_to_print = None
        /\ c = None
        /\ output = None
        /\ pc = "scan" => scan_attempts = 0 /\ ENABLED Next
        /\ pc = "done" => scan_attempts = 1 /\ exit_code = Some(1)

\* the failed run
C8_Witness ==
    /\ ~dir_exists
    /\ pc = "done"
    /\ exit_code = Some(1)
    /\ scan_attempts = 1

(* C9: the layout has 2 columns, a card edge of at most the maximum, two   *)
(* cards and three gaps within the printable width, and the largest number *)
(* of rows of card plus vertical gap within the printable height.          *)
C9_LayoutFits ==
    layout # None =>
        LET printable_width == page_width - 2 * MARGIN * mm
            printable_height == page_height - 2 * MARGIN * mm
            row_height == Lay.card_size + CARD_SPACING_V * mm
        IN  /\ Lay.cards_per_row = 2
            /\ Lay.card_size <= CARD_MAX_SIZE * mm
            /\ Lay.card_size * 2 + Lay.horizontal_spacing * 3 <= printable_width
            /\ Lay.cards_per_col * row_height <= printable_height
            /\ (Lay.cards_per_col + 1) * row_height > printable_height

\* the layout of the A4 page: 80 mm cards, 3 rows, gaps of 20/3 mm
C9_Witness ==
    /\ layout # None
    /\ Lay.card_size = 80 * mm
    /\ Lay.cards_per_col = 3
    /\ Lay.horizontal_spacing * 3 = 20 * mm

(* C10: the square of every position 0 .. rows*columns-1 (row = position   *)
(* div 2, column = position mod 2, row 0 at the top margin) lies inside    *)
(* the printable area, and so does every card drawn.                       *)
C10_SlotsInsidePrintableArea ==
    layout # None =>
        /\ \A position \in 0..(cards_per_page(Lay) - 1) :
              /\ CardRow(position, Lay) = position \div 2
              /\ CardCol(position, Lay) = position % 2
              /\ CardX(position, Lay) >= printable_left
              /\ CardY(position, Lay) >= printable_bottom
              /\ CardX(position, Lay) + Lay.card_size <= printable_right
              /\ CardY(position, Lay) + Lay.card_size <= printable_top
              /\ position \div 2 = 0 =>
                    CardY(position, Lay) + Lay.card_size = printable_top
        /\ c # None =>
              \A pn \in DOMAIN PagesSoFar : \A k \in DOMAIN PagesSoFar[pn] :
                  LET o == PagesSoFar[pn][k]
                  IN  IsCardOp(o) =>
                          /\ o.x >= printable_left
                          /\ o.y >= printable_bottom
                          /\ o.x + o.width <= printable_right
                          /\ o.y + o.height <= printable_top

\* a card drawn in the last position of a page, 26 mm above the page bottom
C10_Witness ==
    /\ c # None
    /\ Cv.code # <<>>
    /\ LET o == Cv.code[Len(Cv.code)]
       IN  /\ o.op = "drawImage"
           /\ o.x = CardX(5, Lay)
           /\ o.y = 26 * mm
           /\ o.x > CardX(0, Lay)

============================================================================
